---- MODULE Spec2Model ----
(***************************************************************************)
(* A model of src/main.go: an educational RSA implementation on machine    *)
(* integers (modular arithmetic, Fermat primality test, key generation,    *)
(* the block codec and brute-force key recovery).                          *)
(*                                                                         *)
(* Go strings are modelled as sequences of one-character strings, Go       *)
(* int64 values as integers (the bounds below keep every intermediate      *)
(* product far below 2^63; the int64 width itself is modelled on decimal   *)
(* digit vectors in the section on wide moduli).  A runtime panic or a     *)
(* stack overflow of the Go program is an explicit outcome of the          *)
(* function that raises it.                                                *)
(***************************************************************************)
EXTENDS Integers, Sequences, FiniteSets, TLC

VARIABLES
    pc,                         \* position of the run being modelled
    p, q, phi,                  \* the primes behind n, and (p-1)(q-1)
    n, e, d,                    \* the key triple
    fp, fq,                     \* findPrivateKey's locals p and q
    x, cx, rx,                  \* a residue, modpow(x,e,n), modpow(cx,d,n)
    msg, ms, bSize, i, blocks,  \* locals of encodeMessage
    enc, dec,                   \* encodeMessage's result, decodeMessage's outcome
    ga, gb, gs, gt,             \* arguments and results of mdcExtended
    verdict,                    \* outcome of isPrime(n)
    wa, wb, wn,                 \* arguments of a modpow call on int64
    wstack, wr                  \* its pending exponents, the last value returned

keyVars   == <<p, q, phi, n, e, d>>
recVars   == <<fp, fq>>
rtVars    == <<x, cx, rx>>
codecVars == <<msg, ms, bSize, i, blocks, enc, dec>>
gcdVars   == <<ga, gb, gs, gt>>
wideVars  == <<wa, wb, wn, wstack, wr>>
vars      == <<pc, keyVars, recVars, rtVars, codecVars, gcdVars, verdict, wideVars>>

-----------------------------------------------------------------------------
(* Bounds of the model. *)

\* the 16-bit random source is cut down to 0..MaxRand plus ExtraDraws
MaxRand == 7
\* witnesses scanned by isPrime: 1..MaxWitness (the code scans 1..999999; for
\* n >= 3 both mdc(a, n) and modpow(a, n-1, n) depend on a mod n only, so the
\* verdict is the same as soon as MaxWitness >= n)
MaxWitness == 600
\* isPrime is called on every n in 0..MaxPrimeArg
MaxPrimeArg == 570
\* longest plaintext given to encodeMessage
MaxMsgLen == 3
\* cap on the blocks built by encodeMessage's splitting loop
MaxBlocks == 4

-----------------------------------------------------------------------------
(* Go integer arithmetic: / and % truncate toward zero. *)

Abs(v) == IF v < 0 THEN -v ELSE v

Min(u, v) == IF u <= v THEN u ELSE v

GoQuo(u, v) ==
    IF (u < 0) = (v < 0) THEN Abs(u) \div Abs(v) ELSE -(Abs(u) \div Abs(v))

GoRem(u, v) == u - v * GoQuo(u, v)

-----------------------------------------------------------------------------
(* ModularArithmetic *)

mod(a, b) ==
    LET r == GoRem(a, b)
    IN  IF (r < 0 /\ b > 0) \/ (r > 0 /\ b < 0) THEN r + b ELSE r

\* modpow never returns when b < 1 (b/2 reaches 0 and stays there: the
\* recursion overflows the stack) and divides by zero when n = 0 and b > 1
modpowCrashes(a, b, n0) == b < 1 \/ (b > 1 /\ n0 = 0)

\* lines 35-39: the square-and-multiply step on y, the value that the
\* recursive call modpow(a, b/2, n) returned
modpowStep(y, a, b, n0) ==
    LET x0 == mod(y, n0)
    IN  IF GoRem(b, 2) = 0
        THEN mod(x0 * x0, n0)
        ELSE mod(mod(x0 * x0, n0) * a, n0)

\* the recursive call is evaluated first and its value bound to y
RECURSIVE modpow(_, _, _)
modpow(a, b, n0) ==
    IF b = 1 THEN a
    ELSE CHOOSE v \in {modpowStep(y, a, b, n0) :
                          y \in {modpow(a, GoQuo(b, 2), n0)}} : TRUE

RECURSIVE mdc(_, _)
mdc(a, b) == IF b = 0 THEN a ELSE mdc(b, mod(a, b))

RECURSIVE mdcExtendedLoop(_, _, _, _, _, _)
mdcExtendedLoop(oldR, r, oldS, s, oldT, t) ==
    IF r = 0 THEN <<oldS, oldT>>
    ELSE LET quotient == GoQuo(oldR, r)
         IN  mdcExtendedLoop(r, oldR - quotient * r,
                             s, oldS - quotient * s,
                             t, oldT - quotient * t)

\* mdcExtended with the initial coefficients of s and t exchanged
mdcExtendedSwapped(a, b) == mdcExtendedLoop(a, b, 0, 1, 1, 0)

mdcExtended(a, b) == mdcExtendedLoop(a, b, 1, 0, 0, 1)

-----------------------------------------------------------------------------
(* PrimalityOracle *)

WitnessLimit == 1000000

isPrimeWitnesses == 1..Min(WitnessLimit - 1, MaxWitness)

\* "true", "false", or "crash" when the scan reaches a modpow call that never
\* returns (n0 <= 1: the exponent n0 - 1 is below 1)
isPrime(n0) ==
    LET fails(a) == /\ mdc(a, n0) = 1
                    /\ \/ modpowCrashes(a, n0 - 1, n0)
                       \/ modpow(a, n0 - 1, n0) # 1
    IN  IF \A a \in isPrimeWitnesses : ~fails(a) THEN "true"
        ELSE LET a0 == CHOOSE a \in isPrimeWitnesses :
                           fails(a) /\ \A c \in 1..(a - 1) : ~fails(c)
             IN  IF modpowCrashes(a0, n0 - 1, n0) THEN "crash" ELSE "false"

-----------------------------------------------------------------------------
(* KeyGenerator *)

PrimeLimit == 54772

ExtraDraws == {17, 53, 61}

\* the values the two random bytes can take, cut down to the model's bounds
RandomValues == (0..MaxRand) \cup ExtraDraws

isPrimeOfDraw == [r \in RandomValues |-> isPrime(r)]

\* generateRandomPrime redraws until a draw is <= PrimeLimit and isPrime
\* accepts it: it can return exactly the members of this set
generateRandomPrime ==
    {r \in RandomValues : r <= PrimeLimit /\ isPrimeOfDraw[r] = "true"}

\* it dies in isPrime when such a draw makes isPrime crash
generateRandomPrimeCrashes ==
    \E r \in RandomValues : r <= PrimeLimit /\ isPrimeOfDraw[r] = "crash"

generateE(phi0) == {r \in RandomValues : mdc(r, phi0) = 1}

\* privateExponent without the "+ phi" of a negative coefficient
privateExponentNoFix(e0, phi0) == mdcExtended(e0, phi0)[1]

\* lines 138-144, shared with findPrivateKey's lines 302-306
privateExponent(e0, phi0) ==
    LET s == mdcExtended(e0, phi0)[1]
    IN  IF s < 0 THEN s + phi0 ELSE s

\* findPrivateKeyFactors with the scan started at n instead of n - 1
findPrivateKeyFactorsFromN(n0) == <<n0, 1>>

\* lines 291-298: the first divisor found scanning n-1 down to 2 and its
\* cofactor; p and q keep their zero values when the scan finds none
findPrivateKeyFactors(n0) ==
    LET divs == {k \in 2..(n0 - 1) : GoRem(n0, k) = 0}
    IN  IF divs = {} THEN <<0, 0>>
        ELSE <<CHOOSE k \in divs : \A j \in divs : j <= k,
               GoQuo(n0, CHOOSE k \in divs : \A j \in divs : j <= k)>>

findPrivateKey(n0, e0) ==
    LET pq == findPrivateKeyFactors(n0)
    IN  privateExponent(e0, (pq[1] - 1) * (pq[2] - 1))

-----------------------------------------------------------------------------
(* Strings: a Go string is a sequence of one-character strings. *)

DigitChars == <<"0", "1", "2", "3", "4", "5", "6", "7", "8", "9">>

IsDigit(ch) == \E k \in 1..10 : DigitChars[k] = ch

DigitVal(ch) == (CHOOSE k \in 1..10 : DigitChars[k] = ch) - 1

RECURSIVE NatDigits(_)
NatDigits(v) ==
    IF v < 10 THEN <<DigitChars[v + 1]>>
    ELSE Append(NatDigits(v \div 10), DigitChars[(v % 10) + 1])

\* fmt.Sprintf("%d", v)
Itoa(v) == IF v < 0 THEN <<"-">> \o NatDigits(-v) ELSE NatDigits(v)

Zeros(k) == [j \in 1..k |-> "0"]

\* fmt.Sprintf("%0*d", width, v): zeros go between the sign and the digits,
\* and a number wider than width is printed in full
SprintfPad(width, v) ==
    LET sign   == IF v < 0 THEN <<"-">> ELSE <<>>
        digits == NatDigits(Abs(v))
        fill   == width - Len(sign) - Len(digits)
    IN  sign \o Zeros(IF fill > 0 THEN fill ELSE 0) \o digits

RECURSIVE DigitsValue(_)
DigitsValue(str) ==
    IF str = <<>> THEN 0
    ELSE 10 * DigitsValue(SubSeq(str, 1, Len(str) - 1)) + DigitVal(str[Len(str)])

\* strconv.Atoi with the error dropped (v, _ := strconv.Atoi(str)): an
\* optional sign and at least one digit, anything else yields 0
Atoi(str) ==
    LET signed == str # <<>> /\ str[1] \in {"+", "-"}
        body   == IF signed THEN Tail(str) ELSE str
    IN  IF body = <<>> \/ \E k \in 1..Len(body) : ~IsDigit(body[k]) THEN 0
        ELSE IF signed /\ str[1] = "-" THEN -DigitsValue(body)
        ELSE DigitsValue(body)

-----------------------------------------------------------------------------
(* BlockCodec *)

RECURSIVE blockSizeLoop(_, _)
blockSizeLoop(blockI, n0) ==
    LET bi == Atoi(blockI \o <<"2", "5">>)
    IN  IF bi > n0 THEN Len(blockI)
        ELSE blockSizeLoop(blockI \o <<"2", "5">>, n0)

blockSize(n0) == blockSizeLoop(<<>>, n0)

countDigits(n0) == Len(Itoa(n0))

alphabet == <<"A", "B", "C", "D", "E", "F", "G", "H", "I", "J", "K", "L", "M",
              "N", "O", "P", "Q", "R", "S", "T", "U", "V", "W", "X", "Y", "Z">>

\* strings.Index(alphabet, string(c)), zero-based, -1 when absent
alphabetIndex(ch) ==
    IF \E k \in 1..26 : alphabet[k] = ch
    THEN (CHOOSE k \in 1..26 : alphabet[k] = ch) - 1
    ELSE -1

\* lines 170-178: every character as its two-digit index
letterDigits(m) == [k \in 1..Len(m) |-> SprintfPad(2, alphabetIndex(m[k]))]

\* lines 190-199: the block that starts at letter i0 (zero-based)
RECURSIVE buildBlock(_, _, _, _)
buildBlock(ms0, i0, j, half) ==
    IF j >= half THEN <<>>
    ELSE (IF i0 + j < Len(ms0) THEN ms0[i0 + j + 1] ELSE <<"2", "3">>)
         \o buildBlock(ms0, i0, j + 1, half)

\* lines 208-218: one encoded block
encodeBlock(n0, e0, b) == SprintfPad(countDigits(n0), modpow(Atoi(b), e0, n0))

\* lines 225-229
RECURSIVE joinBlocks(_)
joinBlocks(cblocks) ==
    IF cblocks = <<>> THEN <<>>
    ELSE Head(cblocks) \o <<" ">> \o joinBlocks(Tail(cblocks))

\* strings.Replace(m, " ", "", -1)
removeSpaces(m) == SelectSeq(m, LAMBDA ch : ch # " ")

\* splitBlocks that drops a short final chunk instead of panicking
RECURSIVE splitBlocksLenient(_, _, _)
splitBlocksLenient(m, i0, cbSize) ==
    IF i0 + cbSize > Len(m) THEN <<TRUE, <<>>>>
    ELSE <<TRUE, <<SubSeq(m, i0 + 1, i0 + cbSize)>>
                   \o splitBlocksLenient(m, i0 + cbSize, cbSize)[2]>>

\* lines 247-256: <<TRUE, blocks>>, or <<FALSE, <<>>>> when the panic of line
\* 251 is raised
RECURSIVE splitBlocks(_, _, _)
splitBlocks(m, i0, cbSize) ==
    IF i0 >= Len(m) THEN <<TRUE, <<>>>>
    ELSE IF \E j \in 0..(cbSize - 1) : i0 + j >= Len(m) THEN <<FALSE, <<>>>>
    ELSE LET rest == splitBlocks(m, i0 + cbSize, cbSize)
         IN  IF rest[1]
             THEN <<TRUE, <<SubSeq(m, i0 + 1, i0 + cbSize)>> \o rest[2]>>
             ELSE rest

\* lines 277-283 for one decoded block: the letters, or <<FALSE, <<>>>> when
\* an index (b[i+1] or alphabet[letterint]) is out of range
RECURSIVE blockLetters(_, _)
blockLetters(b, i0) ==
    IF i0 >= Len(b) THEN <<TRUE, <<>>>>
    ELSE IF i0 + 1 >= Len(b) THEN <<FALSE, <<>>>>
    ELSE LET letterint == Atoi(<<b[i0 + 1], b[i0 + 2]>>)
             rest      == blockLetters(b, i0 + 2)
         IN  IF letterint < 0 \/ letterint > 25 \/ ~rest[1] THEN <<FALSE, <<>>>>
             ELSE <<TRUE, <<alphabet[letterint + 1]>> \o rest[2]>>

RECURSIVE blocksLetters(_)
blocksLetters(bs) ==
    IF bs = <<>> THEN <<TRUE, <<>>>>
    ELSE LET first == blockLetters(Head(bs), 0)
             rest  == blocksLetters(Tail(bs))
         IN  IF first[1] /\ rest[1] THEN <<TRUE, first[2] \o rest[2]>>
             ELSE <<FALSE, <<>>>>

\* The outcome of decodeMessage: status "ok" with the plaintext, "panic" for
\* the panic of line 251, "crash" for any other runtime failure (modpow that
\* never returns or divides by zero, an index out of range).
decodeMessage(n0, d0, m) ==
    LET stripped == removeSpaces(m)
        cbSize   == countDigits(n0)
        split    == splitBlocks(stripped, 0, cbSize)
        cBlocks  == split[2]
        width    == blockSize(n0)
        ints     == [k \in 1..Len(cBlocks) |-> Atoi(cBlocks[k])]
        crashes  == \E k \in 1..Len(cBlocks) : modpowCrashes(ints[k], d0, n0)
        decoded  == [k \in 1..Len(cBlocks) |->
                        SprintfPad(width, modpow(ints[k], d0, n0))]
        letters  == blocksLetters(decoded)
    IN  IF ~split[1] THEN [status |-> "panic", text |-> <<>>]
        ELSE IF crashes \/ ~letters[1] THEN [status |-> "crash", text |-> <<>>]
        ELSE [status |-> "ok", text |-> letters[2]]

-----------------------------------------------------------------------------
(* int64 arithmetic on values too wide for the model checker's integers.   *)
(* A natural number below 2^150 is the tuple of its ten base-2^15 limbs,   *)
(* least significant first; an int64 is a sign and a magnitude, and every  *)
(* product is wrapped to 64 bits as the Go compiler's int64 multiplication *)
(* does.  Sums, differences and products are computed limb by limb with    *)
(* carry look-ahead; factors are below 2^75 (five limbs).                  *)

Base == 2^15

Limbs == 1..10

MaxOf(S) == CHOOSE k \in S : \A j \in S : j <= k

\* the limbs as a tuple
NTuple(f) == SubSeq(f, 1, 10)

NatOf(v) == <<v % Base, (v \div Base) % Base, v \div (Base * Base), 0, 0, 0, 0, 0, 0, 0>>

NLimb(u, k) == IF k \in Limbs THEN u[k] ELSE 0

\* the position of the leading limb, 0 for the number 0
NLen(u) == IF u = NatOf(0) THEN 0 ELSE MaxOf({k \in Limbs : u[k] # 0})

\* -1, 0 or 1
NCmp(u, v) ==
    IF u = v THEN 0
    ELSE IF u[MaxOf({k \in Limbs : u[k] # v[k]})] < v[MaxOf({k \in Limbs : u[k] # v[k]})]
         THEN -1 ELSE 1

\* u + v: a carry enters limb k when some lower limb sum overflows and every
\* limb sum in between is Base - 1
NAdd(u, v) ==
    NTuple([k \in Limbs |->
               (u[k] + v[k]
                  + IF \E j \in 1..(k - 1) :
                          /\ u[j] + v[j] >= Base
                          /\ \A m \in (j + 1)..(k - 1) : u[m] + v[m] = Base - 1
                    THEN 1 ELSE 0) % Base])

\* u - v for u >= v: a borrow enters limb k when some lower limb difference
\* is negative and every limb difference in between is 0
NSub(u, v) ==
    NTuple([k \in Limbs |->
               (u[k] - v[k] + Base
                  - IF \E j \in 1..(k - 1) :
                          /\ u[j] < v[j]
                          /\ \A m \in (j + 1)..(k - 1) : u[m] = v[m]
                    THEN 1 ELSE 0) % Base])

\* u * m for a limb m: the low halves of the limb products plus their high
\* halves one limb up
NMulSmall(u, m) ==
    NAdd(NTuple([k \in Limbs |-> (u[k] * m) % Base]),
         NTuple([k \in Limbs |-> (NLimb(u, k - 1) * m) \div Base]))

\* column k of the product of u and v, the low halves of its limb products
\* and the high halves of those of column k - 1 added up
NColumn(u, v, k) ==
    LET low(j) == (u[j] * NLimb(v, k + 1 - j)) % Base
        high(j) == (u[j] * NLimb(v, k - j)) \div Base
    IN  low(1) + low(2) + low(3) + low(4) + low(5)
          + high(1) + high(2) + high(3) + high(4) + high(5)

\* u * v for u, v below 2^75
NMul(u, v) ==
    NAdd(NTuple([k \in Limbs |-> NColumn(u, v, k) % Base]),
         NTuple([k \in Limbs |-> IF k = 1 THEN 0 ELSE NColumn(u, v, k - 1) \div Base]))

\* u * 2^sh and u \div 2^sh for 0 <= sh < 15
NShl(u, sh) ==
    NTuple([k \in Limbs |->
               (u[k] % 2^(15 - sh)) * 2^sh + NLimb(u, k - 1) \div 2^(15 - sh)])

NShr(u, sh) ==
    NTuple([k \in Limbs |-> u[k] \div 2^sh + (NLimb(u, k + 1) % 2^sh) * 2^(15 - sh)])

\* the limbs of u from limb k upwards
NHigh(u, k) == NTuple([j \in Limbs |-> NLimb(u, j + k - 1)])

\* the remainders cur - c * v that are not negative, for the quotient limbs c
\* from two below the quotient of the leading limbs of cur (v has len limbs,
\* cur one more) by the leading limb of v, which is at least Base / 2
NRemainders(cur, v, len) ==
    LET hi == Min(Base - 1, (cur[len + 1] * Base + cur[len]) \div v[len])
    IN  {NSub(cur, prod) :
            prod \in {prod \in {NMulSmall(v, c) : c \in {c \in (hi - 2)..hi : c >= 0}} :
                         NCmp(prod, cur) <= 0}}

\* long division, limb k of u downwards, r the remainder so far; each
\* remainder is computed before the next limb is taken
RECURSIVE NModFrom(_, _, _, _, _)
NModFrom(u, v, len, k, r) ==
    IF k = 0 THEN r
    ELSE CHOOSE res \in
           {NModFrom(u, v, len, k - 1, next) :
               next \in {next \in NRemainders(<<u[k]>> \o SubSeq(r, 1, 9), v, len) :
                            NCmp(next, v) < 0}} : TRUE

\* the division of u by v, v of len limbs with a leading limb of at least
\* Base / 2: the limbs of u above its lowest k start the remainder
NModNormal(u, v, len, k) == NModFrom(u, v, len, k, NHigh(u, k + 1))

\* u mod v for v # 0 and u below 2^135: both are shifted left until v's leading
\* limb is at least Base / 2, and the remainder is shifted back
NModShifted(u, v, len, sh) ==
    CHOOSE res \in
        {NShr(NModNormal(us, vs, len, IF NLen(us) < len THEN 0 ELSE NLen(us) - len + 1), sh) :
            us \in {NShl(u, sh)}, vs \in {NShl(v, sh)}} : TRUE

NMod(u, v) ==
    NModShifted(u, v, NLen(v),
                CHOOSE c \in 0..14 :
                    2 * v[NLen(v)] * 2^c >= Base /\ v[NLen(v)] * 2^c < Base)

Two63 == <<0, 0, 0, 0, 8, 0, 0, 0, 0, 0>>

Two64 == <<0, 0, 0, 0, 16, 0, 0, 0, 0, 0>>

\* the low 64 bits of u: four limbs and four bits of the fifth
NLow64(u) == <<u[1], u[2], u[3], u[4], u[5] % 16, 0, 0, 0, 0, 0>>

I64Neg(v) == v.neg

I64Pos(v) == ~v.neg /\ v.mag # NatOf(0)

\* the int64 that a mathematical integer (sign, magnitude) wraps to
Wrap64(neg, mag) ==
    LET m == NLow64(mag)
        u == IF neg /\ m # NatOf(0) THEN NSub(Two64, m) ELSE m
    IN  IF NCmp(u, Two63) >= 0
        THEN [neg |-> TRUE, mag |-> NSub(Two64, u)]
        ELSE [neg |-> FALSE, mag |-> u]

I64(v) == [neg |-> v < 0, mag |-> NatOf(Abs(v))]

\* x * y on int64
Mul64(x0, y0) ==
    Wrap64(x0.neg # y0.neg /\ x0.mag # NatOf(0) /\ y0.mag # NatOf(0),
           NMul(x0.mag, y0.mag))

\* x + y on int64
Add64(x0, y0) ==
    IF x0.neg = y0.neg THEN Wrap64(x0.neg, NAdd(x0.mag, y0.mag))
    ELSE IF NCmp(x0.mag, y0.mag) >= 0
         THEN LET m == NSub(x0.mag, y0.mag)
              IN  [neg |-> x0.neg /\ m # NatOf(0), mag |-> m]
         ELSE [neg |-> y0.neg, mag |-> NSub(y0.mag, x0.mag)]

\* x % y on int64: the remainder has the sign of the dividend
Rem64(x0, y0) ==
    LET m == NMod(x0.mag, y0.mag)
    IN  [neg |-> x0.neg /\ m # NatOf(0), mag |-> m]

\* mod (lines 19-25) on int64
mod64(a, b) ==
    LET r == Rem64(a, b)
    IN  IF (I64Neg(r) /\ I64Pos(b)) \/ (I64Pos(r) /\ I64Neg(b))
        THEN Add64(r, b)
        ELSE r

\* mod(u * v, n0) on int64; the product is computed before it is reduced
mulMod64(u, v, n0) == CHOOSE r \in {mod64(prod, n0) : prod \in {Mul64(u, v)}} : TRUE

\* modpowStep64 without the multiplication by a on odd exponents
modpowStep64NoMul(y, a, b, n0) ==
    CHOOSE sq \in {mulMod64(x0, x0, n0) : x0 \in {mod64(y, n0)}} : TRUE

\* lines 35-39 on int64, y the value the recursive call returned
modpowStep64(y, a, b, n0) ==
    CHOOSE r \in {IF GoRem(b, 2) = 0 THEN sq ELSE mulMod64(sq, a, n0) :
                     sq \in {mulMod64(x0, x0, n0) : x0 \in {mod64(y, n0)}}} : TRUE

-----------------------------------------------------------------------------
(* Key generation, the RSA round trip of one residue, and the codec.       *)

MsgLetters == {"H", "Z"}

RECURSIVE SeqsOfLen(_, _)
SeqsOfLen(S, k) ==
    IF k = 0 THEN {<<>>}
    ELSE {Append(w, ch) : w \in SeqsOfLen(S, k - 1), ch \in S}

\* every one-letter message, and the longer ones over MsgLetters
Messages ==
    {<<>>} \cup {<<alphabet[k]>> : k \in 1..26}
           \cup UNION {SeqsOfLen(MsgLetters, k) : k \in 2..MaxMsgLen}

NoOutcome == [status |-> "none", text |-> <<>>]

KeyIdle   == p = 0 /\ q = 0 /\ phi = 0 /\ n = 0 /\ e = 0 /\ d = 0
RecIdle   == fp = 0 /\ fq = 0
RtIdle    == x = 0 /\ cx = 0 /\ rx = 0
CodecIdle == /\ msg = <<>> /\ ms = <<>> /\ bSize = 0 /\ i = 0 /\ blocks = <<>>
             /\ enc = NoOutcome /\ dec = NoOutcome
GcdIdle   == ga = 0 /\ gb = 0 /\ gs = 0 /\ gt = 0
PrimeIdle == verdict = "none"
WideIdle  == wa = I64(0) /\ wb = 0 /\ wn = I64(0) /\ wstack = <<>> /\ wr = I64(0)

Init ==
    /\ pc = "start"
    /\ KeyIdle /\ RecIdle /\ RtIdle /\ CodecIdle /\ GcdIdle /\ PrimeIdle /\ WideIdle

\* main's case 1
genereateRSAKeys ==
    /\ pc = "start"
    /\ \/ /\ generateRandomPrimeCrashes
          /\ pc' = "crashed"
          /\ UNCHANGED keyVars
       \/ \E p0 \in generateRandomPrime, q0 \in generateRandomPrime :
            LET phi0 == (p0 - 1) * (q0 - 1)
            IN  \E e0 \in generateE(phi0) :
                  /\ p' = p0 /\ q' = q0 /\ phi' = phi0
                  /\ n' = p0 * q0
                  /\ e' = e0
                  /\ d' = privateExponent(e0, phi0)
                  /\ pc' = "keys"
    /\ UNCHANGED <<recVars, rtVars, codecVars, gcdVars, verdict, wideVars>>

\* one residue through the public and then the private exponent
RoundTrip ==
    /\ pc = "keys"
    /\ \E x0 \in 0..(n - 1) :
         /\ x' = x0
         /\ IF modpowCrashes(x0, e, n) \/ modpowCrashes(x0, d, n)
            THEN pc' = "crashed" /\ UNCHANGED <<cx, rx>>
            ELSE /\ cx' = modpow(x0, e, n)
                 /\ rx' = modpow(cx', d, n)
                 /\ pc' = "roundtrip"
    /\ UNCHANGED <<keyVars, recVars, codecVars, gcdVars, verdict, wideVars>>

\* encodeMessage(n, e, m) up to the block-splitting loop (lines 170-188)
EncodeStart ==
    /\ pc = "keys"
    /\ \E m \in Messages :
         /\ msg' = m
         /\ ms' = letterDigits(m)
    /\ bSize' = blockSize(n)
    /\ i' = 0
    /\ blocks' = <<>>
    /\ pc' = "enc_loop"
    /\ UNCHANGED <<keyVars, recVars, rtVars, enc, dec, gcdVars, verdict, wideVars>>

\* one iteration of the loop of line 189
EncodeBlock ==
    /\ pc = "enc_loop"
    /\ i < Len(ms)
    /\ Len(blocks) < MaxBlocks
    /\ blocks' = Append(blocks, buildBlock(ms, i, 0, GoQuo(bSize, 2)))
    /\ i' = i + GoQuo(bSize, 2)
    /\ UNCHANGED <<pc, keyVars, recVars, rtVars, msg, ms, bSize, enc, dec, gcdVars, verdict, wideVars>>

\* the loop's exit and the rest of encodeMessage (lines 208-229)
EncodeFinish ==
    /\ pc = "enc_loop"
    /\ i >= Len(ms)
    /\ enc' = IF \E k \in 1..Len(blocks) : modpowCrashes(Atoi(blocks[k]), e, n)
              THEN [status |-> "crash", text |-> <<>>]
              ELSE [status |-> "ok",
                    text |-> joinBlocks([k \in 1..Len(blocks) |->
                                            encodeBlock(n, e, blocks[k])])]
    /\ pc' = "encoded"
    /\ UNCHANGED <<keyVars, recVars, rtVars, msg, ms, bSize, i, blocks, dec, gcdVars, verdict, wideVars>>

\* decodeMessage(n, d, enc)
Decode ==
    /\ pc = "encoded"
    /\ enc.status = "ok"
    /\ dec' = decodeMessage(n, d, enc.text)
    /\ pc' = "decoded"
    /\ UNCHANGED <<keyVars, recVars, rtVars, msg, ms, bSize, i, blocks, enc, gcdVars, verdict, wideVars>>

Next ==
    \/ genereateRSAKeys
    \/ RoundTrip
    \/ EncodeStart
    \/ EncodeBlock
    \/ EncodeFinish
    \/ Decode

Spec == Init /\ [][Next]_vars

-----------------------------------------------------------------------------
(* Claims about generated keys and the codec, checked under Spec.          *)

HasKeys == pc \in {"keys", "roundtrip", "enc_loop", "encoded", "decoded"}

\* C1: every residue x in [0, n) of every generated key (p = q included)
\* comes back from modpow(modpow(x, e, n), d, n).
C1_RoundTrip == pc = "roundtrip" => rx = x

\* the value of "25" written k times
RECURSIVE Rep25(_)
Rep25(k) == IF k = 0 THEN 0 ELSE 100 * Rep25(k - 1) + 25

\* the letters of one block
half == GoQuo(bSize, 2)

\* msg followed by the X's that fill its last block
PaddedMsg ==
    IF half = 0 THEN msg
    ELSE msg \o [k \in 1..((half - (Len(msg) % half)) % half) |-> "X"]

\* C2: decodeMessage(n, d, encodeMessage(n, e, msg)) is msg, followed by
\* exactly the X's that fill the last block, for every generated key.
C2_CodecRoundTrip ==
    pc = "decoded" => dec = [status |-> "ok", text |-> PaddedMsg]

Uint16Max == 65535

\* C7 as stated: n = p*q, 0 < e < phi, gcd(e, phi) = 1, 0 <= d < phi and
\* e*d mod phi = 1 for every returned triple.
C7_KeyTriple ==
    HasKeys => /\ n = p * q
               /\ phi = (p - 1) * (q - 1)
               /\ 0 < e /\ e < phi
               /\ mdc(e, phi) = 1
               /\ 0 <= d /\ d < phi
               /\ (e * d) % phi = 1

\* C7 (amended): the same with 0 < e <= 65535 in place of 0 < e < phi: e is
\* a 16-bit draw that is never compared with phi.
C7_KeyTripleAmended ==
    HasKeys => /\ n = p * q
               /\ phi = (p - 1) * (q - 1)
               /\ 0 < e /\ e <= Uint16Max
               /\ mdc(e, phi) = 1
               /\ 0 <= d /\ d < phi
               /\ (e * d) % phi = 1

\* a key whose d needed the "+ phi" correction, and one with e > phi
C7_Witness ==
    /\ pc = "keys"
    /\ p = 53 /\ q = 61 /\ n = 3233 /\ e = 17 /\ d = 2753
    /\ mdcExtended(e, phi)[1] < 0

\* C9: blockSize(n) is the largest even width w with "25" written w/2 times
\* <= n, and every block encodeMessage builds is a number below n.
C9_BlockBelowModulus ==
    pc \in {"enc_loop", "encoded", "decoded"} =>
        /\ bSize % 2 = 0
        /\ Rep25(half) <= n
        /\ Rep25(half + 1) > n
        /\ \A k \in 1..Len(blocks) : Atoi(blocks[k]) < n

CeilDiv(u, v) == (u + v - 1) \div v

\* C10: the block-splitting loop advances by a positive step and the
\* encoder emits exactly ceil(len(msg) / (blockSize(n)/2)) blocks.
C10_EncodeAdvances ==
    /\ pc = "enc_loop" => half > 0 /\ Len(blocks) <= CeilDiv(Len(ms), half)
    /\ pc \in {"encoded", "decoded"} /\ msg # <<>> =>
          half > 0 /\ Len(blocks) = CeilDiv(Len(ms), half)

-----------------------------------------------------------------------------
(* modpow, one call or return of its recursion per step, on int64.         *)

MaxModulus == 6
MaxExponent == 5

\* every residue of every small modulus, with every small exponent
SmallInputs ==
    {<<I64(a), b, I64(m)>> : a \in 0..(MaxModulus - 1), b \in 1..MaxExponent,
                             m \in 1..MaxModulus}

\* the two textbook exponentiations modulo 3233
TextbookInputs == {<<I64(65), 17, I64(3233)>>, <<I64(2790), 2753, I64(3233)>>}

\* the largest modulus whose residues have squares below 2^63, its
\* successor, 2^32 and 2^63 - 1
WideModuli ==
    {NAdd(NMul(NatOf(30370), NatOf(100000)), NatOf(500)),
     NAdd(NMul(NatOf(30370), NatOf(100000)), NatOf(501)),
     NMul(NatOf(65536), NatOf(65536)),
     NSub(Two63, NatOf(1))}

WideInputs ==
    {<<[neg |-> FALSE, mag |-> NSub(m, k)], b, [neg |-> FALSE, mag |-> m]>> :
        m \in WideModuli, k \in {NatOf(1), NatOf(2)}, b \in 2..3}

ModpowInputs ==
    {in \in SmallInputs : NCmp(in[1].mag, in[3].mag) < 0}
        \cup TextbookInputs \cup WideInputs

InitModpow ==
    /\ pc = "mp_call"
    /\ \E in \in ModpowInputs :
         /\ wa = in[1] /\ wb = in[2] /\ wn = in[3]
         /\ wstack = <<in[2]>>
    /\ wr = I64(0)
    /\ KeyIdle /\ RecIdle /\ RtIdle /\ CodecIdle /\ GcdIdle /\ PrimeIdle

Pop(st) == SubSeq(st, 1, Len(st) - 1)

\* entry of modpow(a, b, n) with b the top of wstack: lines 31-35
modpowCall ==
    /\ pc = "mp_call"
    /\ LET b == wstack[Len(wstack)]
       IN  IF b = 1
           THEN /\ wr' = wa
                /\ wstack' = Pop(wstack)
                /\ pc' = IF Len(wstack) = 1 THEN "mp_done" ELSE "mp_ret"
           ELSE /\ wstack' = Append(wstack, GoQuo(b, 2))
                /\ UNCHANGED <<pc, wr>>
    /\ UNCHANGED <<keyVars, recVars, rtVars, codecVars, gcdVars, verdict, wa, wb, wn>>

\* the recursive call returned wr to the frame on top of wstack: lines 35-39
modpowReturn ==
    /\ pc = "mp_ret"
    /\ wr' = modpowStep64(wr, wa, wstack[Len(wstack)], wn)
    /\ wstack' = Pop(wstack)
    /\ pc' = IF Len(wstack) = 1 THEN "mp_done" ELSE "mp_ret"
    /\ UNCHANGED <<keyVars, recVars, rtVars, codecVars, gcdVars, verdict, wa, wb, wn>>

NextModpow ==
    \/ modpowCall
    \/ modpowReturn

SpecModpow == InitModpow /\ [][NextModpow]_vars

\* a^k mod m for k >= 1 and 0 < m < 2^15
RECURSIVE PowMod(_, _, _)
PowMod(a, k, m) ==
    IF k = 1 THEN a % m
    ELSE (PowMod(a, k \div 2, m) * PowMod(a, k - (k \div 2), m)) % m

\* u^k mod v on unbounded naturals, k >= 1
RECURSIVE NPowMod(_, _, _)
NPowMod(u, k, v) ==
    IF k = 1 THEN NMod(u, v)
    ELSE CHOOSE r \in {NMod(NMul(lo, hi), v) :
                          lo \in {NPowMod(u, k \div 2, v)},
                          hi \in {NPowMod(u, k - (k \div 2), v)}} : TRUE

\* the value returned is a^b mod n; a modulus of one limb has its power
\* computed on the model checker's integers
ReturnsPower ==
    /\ ~wr.neg
    /\ wr.mag = IF NLen(wn.mag) = 1 /\ NLen(wa.mag) <= 1
                THEN NatOf(PowMod(wa.mag[1], wb, wn.mag[1]))
                ELSE NPowMod(wa.mag, wb, wn.mag)

\* C3 as stated: for every modulus n >= 1, base 0 <= a < n and exponent
\* b >= 1, modpow(a, b, n) returns a^b mod n.
C3_Modpow == pc = "mp_done" => ReturnsPower

\* the largest n with (n-1)^2 <= 2^63 - 1
WrapFreeModulus == NAdd(NMul(NatOf(30370), NatOf(100000)), NatOf(500))

\* C3 (amended): for every modulus 1 <= n <= 3037000500, base 0 <= a < n
\* and exponent b >= 1, modpow(a, b, n) returns a^b mod n, a value in [0, n).
C3_ModpowInRange ==
    pc = "mp_done" /\ NCmp(wn.mag, WrapFreeModulus) <= 0 =>
        /\ ReturnsPower
        /\ ~wr.neg /\ NCmp(wr.mag, wn.mag) < 0

\* (n-1)^2 at the largest wrap-free modulus, and modpow(65, 17, 3233) = 2790
C3_Witness ==
    /\ pc = "mp_done"
    /\ \/ wn.mag = WrapFreeModulus /\ wa.mag = NSub(wn.mag, NatOf(1)) /\ wb = 2
          /\ wr = I64(1)
       \/ wa = I64(65) /\ wb = 17 /\ wn = I64(3233) /\ wr = I64(2790)

-----------------------------------------------------------------------------
(* mdcExtended and mdc on every pair of small integers.                    *)

MaxGcdArg == 7

InitGcd ==
    /\ pc = "gcd_call"
    /\ ga \in -MaxGcdArg..MaxGcdArg
    /\ gb \in -MaxGcdArg..MaxGcdArg
    /\ gs = 0 /\ gt = 0
    /\ KeyIdle /\ RecIdle /\ RtIdle /\ CodecIdle /\ PrimeIdle /\ WideIdle

mdcExtendedCall ==
    /\ pc = "gcd_call"
    /\ gs' = mdcExtended(ga, gb)[1]
    /\ gt' = mdcExtended(ga, gb)[2]
    /\ pc' = "gcd_done"
    /\ UNCHANGED <<keyVars, recVars, rtVars, codecVars, ga, gb, verdict, wideVars>>

NextGcd == mdcExtendedCall

SpecGcd == InitGcd /\ [][NextGcd]_vars

\* C5 as stated: for all integers a and b, of any signs, the returned
\* (s, t) satisfy a*s + b*t = mdc(a, b).
C5_Bezout == pc = "gcd_done" => ga * gs + gb * gt = mdc(ga, gb)

SameSign(a, b) == (a >= 0 /\ b >= 0) \/ (a <= 0 /\ b <= 0)

\* C5 (amended): a*s + b*t = mdc(a, b) when neither of a, b is negative or
\* neither is positive; for all a and b the two sides agree up to sign.
C5_BezoutSameSign ==
    pc = "gcd_done" =>
        /\ SameSign(ga, gb) => ga * gs + gb * gt = mdc(ga, gb)
        /\ Abs(ga * gs + gb * gt) = Abs(mdc(ga, gb))

\* a pair of negative arguments with a non-trivial gcd
C5_Witness ==
    /\ pc = "gcd_done"
    /\ ga = -6 /\ gb = -4
    /\ ga * gs + gb * gt = -2

-----------------------------------------------------------------------------
(* isPrime on every n in 0..MaxPrimeArg.                                   *)

InitPrime ==
    /\ pc = "prime_call"
    /\ n \in 0..MaxPrimeArg
    /\ p = 0 /\ q = 0 /\ phi = 0 /\ e = 0 /\ d = 0
    /\ verdict = "none"
    /\ RecIdle /\ RtIdle /\ CodecIdle /\ GcdIdle /\ WideIdle

isPrimeCall ==
    /\ pc = "prime_call"
    /\ verdict' = isPrime(n)
    /\ pc' = "prime_done"
    /\ UNCHANGED <<keyVars, recVars, rtVars, codecVars, gcdVars, wideVars>>

NextPrime == isPrimeCall

SpecPrime == InitPrime /\ [][NextPrime]_vars

Divides(k, v) == v % k = 0

IsPrimeNumber(v) == v >= 2 /\ \A k \in 2..(v - 1) : ~Divides(k, v)

SmallPrimes == {2, 3, 5, 7}

HasSmallFactor(v) == \E k \in SmallPrimes : k < v /\ Divides(k, v)

\* C4: isPrime returns false for every composite with a small prime factor
\* and true for every prime from 2 upward.
C4_IsPrime ==
    pc = "prime_done" =>
        /\ IsPrimeNumber(n) => verdict = "true"
        /\ HasSmallFactor(n) => verdict = "false"

-----------------------------------------------------------------------------
(* findPrivateKey on products of two known primes, then the round trip.    *)

MaxRecoverPrime == 7
MaxRecoverE == 7

\* pairs of primes, equal ones included, and the textbook pair
RecoverPrimePairs ==
    {<<u, v>> : u, v \in {k \in 2..MaxRecoverPrime : IsPrimeNumber(k)}}
        \cup {<<61, 53>>}

\* the valid public exponents tried for phi0, and the textbook 17
RecoverExponents(phi0) ==
    {k \in (1..MaxRecoverE) \cup {17} : mdc(k, phi0) = 1}

InitRecover ==
    /\ pc = "rec_call"
    /\ \E pq \in RecoverPrimePairs :
         /\ p = pq[1] /\ q = pq[2]
         /\ n = pq[1] * pq[2]
         /\ e \in RecoverExponents((pq[1] - 1) * (pq[2] - 1))
    /\ phi = 0 /\ d = 0
    /\ RecIdle /\ RtIdle /\ CodecIdle /\ GcdIdle /\ PrimeIdle /\ WideIdle

\* main's case 6: d is what findPrivateKey(n, e) returns
findPrivateKeyCall ==
    /\ pc = "rec_call"
    /\ fp' = findPrivateKeyFactors(n)[1]
    /\ fq' = findPrivateKeyFactors(n)[2]
    /\ phi' = (fp' - 1) * (fq' - 1)
    /\ d' = findPrivateKey(n, e)
    /\ pc' = "keys"
    /\ UNCHANGED <<p, q, n, e, rtVars, codecVars, gcdVars, verdict, wideVars>>

NextRecover ==
    \/ findPrivateKeyCall
    \/ RoundTrip

SpecRecover == InitRecover /\ [][NextRecover]_vars

\* C6 as stated: for every n = p*q with p, q prime and every valid e, the
\* d that findPrivateKey(n, e) returns brings every x in [0, n) back.
C6_Recover == pc # "crashed" /\ (pc = "roundtrip" => rx = x)

\* C6 (amended): the same for distinct primes p # q, n = p*q not above
\* 3037000500 and e >= 1; there d is also the d that key generation
\* derives from p, q and e.
C6_RecoverDistinct ==
    p # q =>
        /\ pc # "crashed"
        /\ pc \in {"keys", "roundtrip"} =>
              /\ {fp, fq} = {p, q}
              /\ d = privateExponent(e, (p - 1) * (q - 1))
        /\ pc = "roundtrip" => rx = x

\* the textbook key recovered and used on 65
C6_Witness ==
    /\ pc = "roundtrip"
    /\ p = 61 /\ q = 53 /\ n = 3233 /\ e = 17
    /\ fp = 61 /\ fq = 53 /\ d = 2753
    /\ x = 65 /\ cx = 2790 /\ rx = 65

-----------------------------------------------------------------------------
(* decodeMessage on arbitrary input strings.                               *)

MaxEncLen == 4

EncChars == {"0", "1", "3", " "}

DecodeModuli == {-5, 0, 7, 33, 100}

DecodeExponents == {1, 3}

InitDecode ==
    /\ pc = "encoded"
    /\ n \in DecodeModuli
    /\ d \in DecodeExponents
    /\ p = 0 /\ q = 0 /\ phi = 0 /\ e = 0
    /\ msg = <<>> /\ ms = <<>> /\ bSize = 0 /\ i = 0 /\ blocks = <<>>
    /\ \E k \in 0..MaxEncLen :
         \E text \in SeqsOfLen(EncChars, k) : enc = [status |-> "ok", text |-> text]
    /\ dec = NoOutcome
    /\ RecIdle /\ RtIdle /\ GcdIdle /\ PrimeIdle /\ WideIdle

NextDecode == Decode

SpecDecode == InitDecode /\ [][NextDecode]_vars

\* C8: when the input's length without its spaces is not a multiple of
\* countDigits(n), decodeMessage aborts with the panic of line 251 and
\* returns no plaintext.
C8_ShortChunkPanics ==
    pc = "decoded" /\ Len(removeSpaces(enc.text)) % countDigits(n) # 0 =>
        dec = [status |-> "panic", text |-> <<>>]

\* a complete leading chunk "13" followed by the short chunk "0"
C8_Witness ==
    /\ pc = "decoded"
    /\ n = 33
    /\ enc.text = <<"1", "3", " ", "0">>
    /\ dec.status = "panic"

====
